---- MODULE Spec2Model ----
(***************************************************************************)
(* cluster-ops: a supervisor (lib/cluster.js, class Cluster) that keeps a  *)
(* pool of worker processes, and the agent that runs inside each worker    *)
(* (lib/worker.js, class Worker).                                          *)
(*                                                                         *)
(* The supervisor is single threaded: every public method and every event  *)
(* listener (a worker's "exit" and "message" events, the process.nextTick  *)
(* callback of stop()) runs to completion, so each is one action.  The     *)
(* worker processes run in parallel with it; what they do (handle a        *)
(* message, end) are actions of their own, and the two sides meet through  *)
(* the per-worker channel: inbox[w] holds what the supervisor sent and the *)
(* agent has not handled yet; a message of a worker reaches the supervisor *)
(* before that worker's exit notification, at any moment in between the    *)
(* other events.                                                           *)
(***************************************************************************)
EXTENDS Integers, Sequences, FiniteSets

\* ---------------------------------------------------------------- bounds
MaxIds     == 2   \* worker processes ever spawned in one behaviour
MaxTarget  == 2   \* largest target_workers
MaxUnder   == 1   \* how far below zero target_workers may be driven
MaxCount   == 2   \* largest count given to spinUp / spinDown
MaxInbox   == 1   \* messages in flight from the supervisor to one worker
MaxStops   == 1   \* stop() calls in one behaviour
MaxExiting == 1   \* ended processes whose exit notification is still to come
AgeSpread  == 1   \* ages MinAgeDefault - AgeSpread .. MinAgeDefault + AgeSpread
MaxSets    == 2   \* calls of configuration setters in one behaviour
MaxListeners == 2 \* "exit" listeners the application attaches to its agent

\* ------------------------------------------------------ program constants
MinAgeDefault == 500    \* opts.restart.min_age

\* lib/syscalls.js: the system call kinds, pairwise distinct
EXIT      == "EXIT"
SPIN_UP   == "SPIN_UP"
SPIN_DOWN == "SPIN_DOWN"

\* JavaScript's null and undefined, as field values of an envelope
Null      == "null"
Undefined == "undefined"
\* exit(code, signal): code is null when a signal killed the process
NullCode  == -1
NoSignal  == "null"

Ids  == 1..MaxIds
Ages == (MinAgeDefault - AgeSpread)..(MinAgeDefault + AgeSpread)

VARIABLES
  target_workers,          \* #target_workers
  restart_on_error,        \* #restart_on_error
  restart_on_signal,       \* #restart_on_signal
  restart_on_normal_exit,  \* #restart_on_normal_exit
  min_restart_age,         \* #min_restart_age
  workers,                 \* Object.keys(#workers): the registry, in insertion order
  listener,                \* listener[w]: the "exit" listener attached to worker w
  death_time,              \* death_time[w]: worker.DEATH_TIME is set
  proc,                    \* proc[w]: the OS process of worker w
  inbox,                   \* inbox[w]: messages sent to w, not yet handled by its agent
  promises,                \* the promises returned by stop(): whether each is
                           \* settled, the number k of workers stop() found
                           \* and those of them whose exit is still to come
  settings,                \* #exec, #args, #env, #cwd, #uid, #gid
  image,                   \* image[w]: what the process of w was launched with
  sets,                    \* number of setter calls so far
  agent,                   \* one worker process seen from inside: its Worker
                           \* agent, the hooks on process, the "exit" listeners
  last                     \* the handler that ran last, its arguments and what it emitted

vars == <<target_workers, restart_on_error, restart_on_signal,
          restart_on_normal_exit, min_restart_age, workers, listener,
          death_time, proc, inbox, promises, settings, image, sets, agent, last>>

config == <<restart_on_error, restart_on_signal, restart_on_normal_exit,
            min_restart_age, settings, sets, agent>>

\* ---------------------------------------------------------------- helpers
Range(s) == {s[i] : i \in 1..Len(s)}

\* delete obj[k]
Delete(s, k) == SelectSeq(s, LAMBDA x : x # k)

\* obj[k] = v: a new key goes last, an existing key keeps its place
Put(s, k) == IF k \in Range(s) THEN s ELSE Append(s, k)

Unborn  == [st |-> "unborn",  code |-> NullCode, signal |-> NoSignal]
Running == [st |-> "running", code |-> NullCode, signal |-> NoSignal]
Exited(code, signal) == [st |-> "exited", code |-> code, signal |-> signal]
Reaped == [st |-> "reaped", code |-> NullCode, signal |-> NoSignal]

\* ------------------------------------------------------------- messages
\* An envelope on the wire: {type, message} plus, for a system call, the
\* call-specific fields merged in.  A field the sender did not set reads as
\* undefined.
Envelope(type, call, system, count, id) ==
  [type |-> type, call |-> call, system |-> system, count |-> count,
   WORKER_ID |-> id]

\* what #terminateWorker sends: { type: null, system: syscalls.EXIT, WORKER_ID }
ExitRequest(id) == Envelope(Null, Undefined, EXIT, 0, id)

\* what a worker can send to the supervisor: the two self-service requests,
\* a plain message (Worker.send(m)) and a typed one (Worker.send(m, "test"))
WorkerMessages ==
  { Envelope(Null, c, Undefined, n, 0) : c \in {SPIN_UP, SPIN_DOWN}, n \in 1..MaxCount }
  \cup { Envelope(Undefined, Undefined, Undefined, 0, 0),
         Envelope("test", Undefined, Undefined, 0, 0) }

\* no message
NoMessage == Envelope("none", Undefined, Undefined, 0, 0)

\* events of the supervisor (an EventEmitter)
Event(ev, w, nw, code, signal, class) ==
  [ev |-> ev, w |-> w, nw |-> nw, code |-> code, signal |-> signal,
   class |-> class]
Death(w, code, signal) == Event("death", w, 0, code, signal, Undefined)
Restart(w, nw, code, signal) == Event("restart", w, nw, code, signal, Undefined)
Message(w, type) ==
  Event(IF type = Undefined THEN "message" ELSE "message-" \o type,
        w, 0, NullCode, NoSignal, Undefined)
\* the "exit" event of the agent in worker w, with its classification
AgentExit(w, class) == Event("exit", w, 0, NullCode, NoSignal, class)

\* ------------------------------------------------------- configuration
\* A path is a sequence of segments; an absolute one starts at the root.
\* path.resolve(from, to): to if it is absolute, else from joined with to;
\* "." and ".." segments are then resolved.
RECURSIVE Normalize(_, _)
Normalize(segs, acc) ==
  IF segs = <<>> THEN acc
  ELSE LET h == Head(segs) IN
       Normalize(Tail(segs),
                 IF h = "." THEN acc
                 ELSE IF h = ".."
                      THEN (IF acc = <<>> THEN acc
                            ELSE SubSeq(acc, 1, Len(acc) - 1))
                      ELSE Append(acc, h))
Resolve(from, to) ==
  Normalize(IF to.abs THEN to.segs ELSE from \o to.segs, <<>>)

\* the source file of the code that calls into the cluster, and
\* trace.substring(0, trace.lastIndexOf("/"))
CallerFile == <<"app", "main.js">>
Dirname(file) == SubSeq(file, 1, Len(file) - 1)
\* process.cwd() of the supervisor
ProcessCwd == <<"srv">>

\* values the owner gives to the setters
Files    == { [abs |-> FALSE, segs |-> <<".", "worker.js">>],
              [abs |-> TRUE,  segs |-> <<"opt", "w.js">>] }
Dirs     == { [abs |-> FALSE, segs |-> <<"..", "run">>],
              [abs |-> TRUE,  segs |-> <<"tmp">>] }
ArgLists == { <<>>, <<"--fast">> }
Users    == { 0, 1000 }
\* env: a mapping of variable names to strings.  A string is modelled as a
\* number: the string of identity i as i, a string the owner wrote as a
\* number that is no identity.
EnvKeys      == {"WORKER_ID", "MODE"}
OwnerStrings == {0}
Envs         == UNION { [K -> OwnerStrings] : K \in SUBSET EnvKeys }

\* the constructor's defaults: file: null (the caller's file),
\* args: process.argv.slice(2), env: {}, cwd: process.cwd(), the
\* supervisor's own uid and gid
DefaultSettings ==
  [exec |-> CallerFile, args |-> <<>>, env |-> [k \in {} |-> 0],
   cwd |-> ProcessCwd, uid |-> 1000, gid |-> 1000]

NoImage == [exec |-> <<>>, args |-> <<>>, env |-> [k \in {} |-> 0],
            cwd |-> <<>>, uid |-> 0, gid |-> 0]

\* a launch that ignores what the setters stored
ForkDefault(S, id) ==
  [exec |-> DefaultSettings.exec, args |-> DefaultSettings.args,
   cwd |-> DefaultSettings.cwd, uid |-> DefaultSettings.uid,
   gid |-> DefaultSettings.gid,
   env |-> [k \in {"WORKER_ID"} |-> id]]

\* cluster.setupPrimary({exec, args, cwd, uid, gid}) and
\* cluster.fork({WORKER_ID, ...this.#env}): in the object literal a key of
\* #env comes after WORKER_ID and takes its place
Fork(S, id) ==
  [exec |-> S.settings.exec, args |-> S.settings.args,
   cwd |-> S.settings.cwd, uid |-> S.settings.uid, gid |-> S.settings.gid,
   env |-> [k \in {"WORKER_ID"} \cup DOMAIN S.settings.env |->
              IF k \in DOMAIN S.settings.env THEN S.settings.env[k] ELSE id]]

\* ------------------------------------------- the supervisor's operations
\* Each operation is a function on the part of the state a handler can touch;
\* spawned and events collect what one handler invocation did, threw is set
\* when it ended in an exception, and full when it needed more than the
\* bounds of the model allow.
Cur ==
  [target |-> target_workers, workers |-> workers, listener |-> listener,
   death_time |-> death_time, proc |-> proc, inbox |-> inbox,
   settings |-> settings, image |-> image,
   spawned |-> <<>>, events |-> <<>>, threw |-> FALSE, full |-> FALSE]

\* identities never generated so far
Fresh(S) == {i \in Ids : S.proc[i].st = "unborn"}

\* a generator that only avoids the identities registered right now
NewWorkerIdReuse(S) ==
  CHOOSE i \in Ids \ Range(S.workers) : \A j \in Ids \ Range(S.workers) : i <= j

\* WORKER_ID: 8 hex digits of the time and 64 random bits.  Identities are
\* opaque and two draws are equal with probability 2^-64, so a draw is
\* modelled as a value never drawn before (the least one, by symmetry).
NewWorkerId(S) == CHOOSE i \in Fresh(S) : \A j \in Fresh(S) : i <= j

\* #spawnWorker
SpawnWorker(S) ==
  IF Fresh(S) = {} THEN [S EXCEPT !.full = TRUE]
  ELSE LET id == NewWorkerId(S) IN
       [S EXCEPT !.workers = Put(@, id),
                 !.proc[id] = Running,
                 !.image[id] = Fork(S, id),
                 !.inbox[id] = <<>>,
                 !.death_time[id] = FALSE,
                 !.listener[id] = "onExit",
                 !.spawned = Append(@, id)]

\* for (let i = 0; i < n; ++i) this.#spawnWorker();
RECURSIVE SpawnLoop(_, _)
SpawnLoop(S, n) == IF n <= 0 THEN S ELSE SpawnLoop(SpawnWorker(S), n - 1)

\* worker.send(msg): reaches the inbox of a live process, is lost otherwise
Send(S, id, msg) ==
  IF S.proc[id].st # "running" THEN S
  ELSE IF Len(S.inbox[id]) >= MaxInbox THEN [S EXCEPT !.full = TRUE]
  ELSE [S EXCEPT !.inbox[id] = Append(@, msg)]

\* #terminateWorker(WORKER_ID); keys[i] is undefined past the end of keys, and
\* this.#workers[undefined].removeAllListeners throws a TypeError
TerminateWorker(S, keys, i) ==
  IF i > Len(keys) \/ keys[i] \notin Range(S.workers) THEN [S EXCEPT !.threw = TRUE]
  ELSE LET id == keys[i] IN
       [Send(S, id, ExitRequest(id)) EXCEPT !.listener[id] = "terminate"]

\* for (let i = from; i < to; ++i) this.#terminateWorker(keys[i]);
\* (i counts from 1 here), left at the first exception
RECURSIVE TerminateLoop(_, _, _, _)
TerminateLoop(S, keys, i, to) ==
  IF i > to \/ S.threw THEN S
  ELSE TerminateLoop(TerminateWorker(S, keys, i), keys, i + 1, to)

\* start() with the loop running once too often
startOffByOne(S) == SpawnLoop(S, S.target + 1)

\* start()
start(S) == SpawnLoop(S, S.target)

\* stop(), up to the promise it returns
stop(S) == TerminateLoop(S, S.workers, 1, Len(S.workers))

\* spinUp(x) that spawns without raising the target
spinUpNoTarget(S, x) == SpawnLoop(S, x)

\* spinUp(x)
spinUp(S, x) == SpawnLoop([S EXCEPT !.target = @ + x], x)

\* spinDown(x, force)
spinDown(S, x, force) ==
  LET S1 == [S EXCEPT !.target = @ - x] IN
  IF force THEN TerminateLoop(S1, S1.workers, 1, x) ELSE S1

\* refreshWorkers() that forgets the workers already running
refreshWorkersAll(S) == SpawnLoop(S, S.target)

\* refreshWorkers()
refreshWorkers(S) == SpawnLoop(S, S.target - Len(S.workers))

\* the restart policy without the minimum age
ShouldRestartNoAge(code, signal, age) ==
  IF signal # NoSignal THEN restart_on_signal
  ELSE IF code # 0 THEN restart_on_error
  ELSE restart_on_normal_exit

\* #onExit: which exits are answered by a replacement
ShouldRestart(code, signal, age) ==
  IF signal # NoSignal THEN age >= min_restart_age /\ restart_on_signal
  ELSE IF code # 0 THEN age >= min_restart_age /\ restart_on_error
  ELSE age >= min_restart_age /\ restart_on_normal_exit

\* #onExit that reports the dead worker as its own replacement
onExitWrongNew(S, w, code, signal, age) ==
  LET S1 == [S EXCEPT !.death_time[w] = TRUE,
                      !.workers = Delete(@, w),
                      !.events = Append(@, Death(w, code, signal))]
  IN IF Len(S1.workers) < S1.target /\ ShouldRestart(code, signal, age)
     THEN LET S2 == SpawnWorker(S1) IN
          IF S2.full THEN S2
          ELSE [S2 EXCEPT !.events = Append(@, Restart(w, w, code, signal))]
     ELSE S1

\* #onExit(worker, code, signal), the listener #spawnWorker attaches
onExit(S, w, code, signal, age) ==
  LET S1 == [S EXCEPT !.death_time[w] = TRUE,
                      !.workers = Delete(@, w),
                      !.events = Append(@, Death(w, code, signal))]
  IN IF Len(S1.workers) < S1.target /\ ShouldRestart(code, signal, age)
     THEN LET S2 == SpawnWorker(S1) IN
          IF S2.full THEN S2
          ELSE [S2 EXCEPT !.events =
                  Append(@, Restart(w, S2.spawned[Len(S2.spawned)], code, signal))]
     ELSE S1

\* a termination listener that goes through the restart logic all the same
onTerminatedExitRestarts(S, w, code, signal) ==
  onExit(S, w, code, signal, MinAgeDefault)

\* the "exit" listener #terminateWorker attaches
onTerminatedExit(S, w, code, signal) ==
  LET S1 == IF signal # NoSignal \/ code # 0
            THEN [S EXCEPT !.events = Append(@, Death(w, code, signal))]
            ELSE S
  IN [S1 EXCEPT !.workers = Delete(@, w)]

\* #onSystemMessage(worker, msg)
onSystemMessage(S, w, msg) ==
  IF msg.call = SPIN_UP THEN spinUp(S, msg.count)
  ELSE IF msg.call = SPIN_DOWN THEN spinDown(S, msg.count, FALSE)
  ELSE S

\* #onMessage(worker, msg)
onMessage(S, w, msg) ==
  IF msg.type = Null THEN onSystemMessage(S, w, msg)
  ELSE [S EXCEPT !.events = Append(@, Message(w, msg.type))]

\* ------------------------------------------------------ the worker's agent
\* Worker.#onSystemMessage(msg): is msg the EXIT system call?
IsExitCall(msg) == msg.call = EXIT

\* Worker.#onMessage(msg): the classification of the "exit" event the message
\* leads to, or Undefined when it leads to none
AgentExitOn(msg) ==
  IF msg.type = Null /\ IsExitCall(msg) THEN "requested" ELSE Undefined

\* Worker.CATCH_SIGNALS
CATCH_SIGNALS == <<"HUP", "INT", "QUIT", "TERM", "ABRT", "BREAK">>
SigName(s) == "SIG" \o s

\* the listeners the constructor puts on process, in the order it does:
\* "message" -> #onMessage, each signal, "disconnect" and
\* "uncaughtExceptionMonitor" -> #onExit bound to (null, opts, exit)
Hook(on, fn, class, exit) ==
  [on |-> on, fn |-> fn, class |-> class, exit |-> exit]
ConstructorHooks ==
  << Hook("message", "onMessage", Undefined, FALSE) >>
  \o [i \in 1..Len(CATCH_SIGNALS) |->
        Hook(SigName(CATCH_SIGNALS[i]), "onExit",
             SigName(CATCH_SIGNALS[i]), TRUE)]
  \o << Hook("disconnect", "onExit", "disconnected", TRUE),
        Hook("uncaughtExceptionMonitor", "onExit", "error", FALSE) >>

\* the events of process a worker can meet
ProcessEvents ==
  {SigName(CATCH_SIGNALS[i]) : i \in 1..Len(CATCH_SIGNALS)}
  \cup {"disconnect", "uncaughtExceptionMonitor"}

\* messages that reach a worker: what #terminateWorker sends, an EXIT
\* system call as the agent expects it, a plain and a typed message
AgentMessages ==
  { ExitRequest(1),
    Envelope(Null, EXIT, Undefined, 0, 1),
    Envelope(Undefined, Undefined, Undefined, 0, 0),
    Envelope("test", Undefined, Undefined, 0, 0) }

\* the process before its program has constructed anything
AgentBoot ==
  [alive |-> TRUE, code |-> NullCode, signal |-> NoSignal,
   has_been_created |-> FALSE, instances |-> 0, hooks |-> <<>>,
   listeners |-> 0, catches |-> FALSE, did |-> "boot", msg |-> NoMessage,
   log |-> <<>>, threw |-> FALSE]

\* a constructor without the single-instance check
NewWorkerNoCheck(A) ==
  [A EXCEPT !.has_been_created = TRUE,
            !.instances = @ + 1,
            !.hooks = @ \o ConstructorHooks]

\* new Worker(): throws when one has been created in this process, before
\* it has registered anything
NewWorker(A) ==
  IF A.has_been_created THEN [A EXCEPT !.threw = TRUE]
  ELSE [A EXCEPT !.has_been_created = TRUE,
                 !.instances = @ + 1,
                 !.hooks = @ \o ConstructorHooks]

\* one run of an "exit" listener, as the log records it
Heard(fn, class) == [listener |-> fn, class |-> class]

\* emit("exit", opts) to the listeners ls, in their order; process.exit(0)
\* ends the process, and listeners after it do not run
RECURSIVE EmitExit(_, _, _)
EmitExit(A, ls, class) ==
  IF ls = <<>> \/ ~A.alive THEN A
  ELSE EmitExit([A EXCEPT !.log = Append(@, Heard(Head(ls), class)),
                          !.alive = IF Head(ls) = "terminate" THEN FALSE ELSE @,
                          !.code = IF Head(ls) = "terminate" THEN 0 ELSE @],
                Tail(ls), class)

\* an #onExit that puts its terminating listener before the others
AgentOnExitFirst(A, class, exit) ==
  EmitExit(A, (IF exit THEN <<"terminate">> ELSE <<>>)
              \o [i \in 1..A.listeners |-> "app"], class)

\* Worker.#onExit(msg, opts, exit): this.once("exit", () => process.exit(0))
\* appends the terminating listener to those attached so far, then emits
AgentOnExit(A, class, exit) ==
  EmitExit(A, [i \in 1..A.listeners |-> "app"]
              \o (IF exit THEN <<"terminate">> ELSE <<>>), class)

\* one listener on process runs
RunHook(A, h, msg) ==
  IF ~A.alive THEN A
  ELSE IF h.fn = "onMessage"
       THEN (IF AgentExitOn(msg) = Undefined THEN A
             ELSE AgentOnExit(A, AgentExitOn(msg), TRUE))
       ELSE AgentOnExit(A, h.class, h.exit)

RECURSIVE RunHooks(_, _, _)
RunHooks(A, hs, msg) ==
  IF hs = <<>> THEN A ELSE RunHooks(RunHook(A, Head(hs), msg), Tail(hs), msg)

\* the process meets event ev: its listeners for ev run; a signal nobody
\* listens to kills the process, and after an uncaught error the platform
\* ends it with code 1 unless the program handles "uncaughtException"
Deliver(A, ev, msg) ==
  LET hs == SelectSeq(A.hooks, LAMBDA h : h.on = ev)
      B == RunHooks(A, hs, msg) IN
  IF ~B.alive THEN B
  ELSE IF ev = "uncaughtExceptionMonitor"
       THEN IF B.catches THEN B ELSE [B EXCEPT !.alive = FALSE, !.code = 1]
  ELSE IF hs = <<>> /\ ev \notin {"message", "disconnect"}
       THEN [B EXCEPT !.alive = FALSE, !.signal = ev]
  ELSE B

\* What ends a worker process other than a message: an uncaught error (the
\* agent's uncaughtExceptionMonitor hook emits "exit" and the platform ends
\* the process with code 1), a signal of CATCH_SIGNALS (the agent emits
\* "exit" and calls process.exit(0)), a signal that cannot be caught, and
\* the application leaving by itself with code 0.  <<trigger, the agent's
\* classification, code, signal>>
Triggers ==
  { <<"error",   "error",   1,        NoSignal>>,
    <<"SIGTERM", "SIGTERM", 0,        NoSignal>>,
    <<"SIGKILL", Undefined, NullCode, "SIGKILL">>,
    <<"return",  Undefined, 0,        NoSignal>> }

\* ------------------------------------------------------------ the machine
Init ==
  /\ target_workers \in 0..MaxTarget
  /\ restart_on_error \in BOOLEAN
  /\ restart_on_signal \in BOOLEAN
  /\ restart_on_normal_exit \in BOOLEAN
  /\ min_restart_age = MinAgeDefault
  /\ workers = <<>>
  /\ listener = [i \in Ids |-> "none"]
  /\ death_time = [i \in Ids |-> FALSE]
  /\ proc = [i \in Ids |-> Unborn]
  /\ inbox = [i \in Ids |-> <<>>]
  /\ promises = <<>>
  /\ settings = DefaultSettings
  /\ image = [i \in Ids |-> NoImage]
  /\ sets = 0
  /\ agent = AgentBoot
  /\ last = [op |-> "new", w |-> 0, n |-> 0, force |-> FALSE,
             code |-> NullCode, signal |-> NoSignal, age |-> 0,
             msg |-> NoMessage,
             keys0 |-> <<>>, size0 |-> 0, target0 |-> 0,
             spawned |-> <<>>, events |-> <<>>, threw |-> FALSE]

\* the record of one handler invocation that ended in S: what ran, on which
\* arguments, the registry and the target it found, and what it did
Ran(op, w, n, force, code, signal, age, msg, S) ==
  [op |-> op, w |-> w, n |-> n, force |-> force, code |-> code,
   signal |-> signal, age |-> age, msg |-> msg,
   keys0 |-> workers, size0 |-> Len(workers), target0 |-> target_workers, spawned |-> S.spawned, events |-> S.events,
   threw |-> S.threw]

\* the handler's effects become the next state, if the model can hold them
Commit(S) ==
  /\ ~S.full
  /\ S.target \in (0 - MaxUnder)..MaxTarget
  /\ target_workers' = S.target
  /\ workers' = S.workers
  /\ listener' = S.listener
  /\ death_time' = S.death_time
  /\ proc' = S.proc
  /\ inbox' = S.inbox
  /\ image' = S.image

\* a process.nextTick callback is queued: it runs before any I/O event
TickPending == \E i \in 1..Len(promises) : promises[i].st = "tick"

\* ---- calls of the owner
Start ==
  LET S == start(Cur) IN
  /\ Commit(S)
  /\ last' = Ran("start", 0, 0, FALSE, NullCode, NoSignal, 0, NoMessage, S)
  /\ UNCHANGED <<config, promises>>

\* stop(): the promise it returns is settled by the callback it queues
Stop ==
  LET S == stop(Cur) IN
  /\ Len(promises) < MaxStops
  /\ Commit(S)
  /\ promises' = Append(promises, [st |-> "tick", k |-> Len(workers), awaited |-> Range(workers)])
  /\ last' = Ran("stop", 0, 0, FALSE, NullCode, NoSignal, 0, NoMessage, S)
  /\ UNCHANGED config

\* the callback stop() gave to process.nextTick
StopTick ==
  \E i \in 1..Len(promises) :
    /\ promises[i].st = "tick"
    /\ \A j \in 1..(i - 1) : promises[j].st # "tick"
    /\ promises' = [promises EXCEPT ![i].st =
                      IF Len(workers) = 0 THEN "resolved" ELSE "pending"]
    /\ last' = Ran("stopTick", 0, i, FALSE, NullCode, NoSignal, 0, NoMessage, Cur)
    /\ UNCHANGED <<target_workers, config, workers, listener, death_time,
                   proc, inbox, image>>

SpinUp(x) ==
  LET S == spinUp(Cur, x) IN
  /\ Commit(S)
  /\ last' = Ran("spinUp", 0, x, FALSE, NullCode, NoSignal, 0, NoMessage, S)
  /\ UNCHANGED <<config, promises>>

SpinDown(x, force) ==
  LET S == spinDown(Cur, x, force) IN
  /\ Commit(S)
  /\ last' = Ran("spinDown", 0, x, force, NullCode, NoSignal, 0, NoMessage, S)
  /\ UNCHANGED <<config, promises>>

RefreshWorkers ==
  LET S == refreshWorkers(Cur) IN
  /\ Commit(S)
  /\ last' = Ran("refreshWorkers", 0, 0, FALSE, NullCode, NoSignal, 0, NoMessage, S)
  /\ UNCHANGED <<config, promises>>

\* ---- events delivered to the supervisor by the event loop
\* the exit notification of w has been processed: no stop() waits for it now
Processed(w) ==
  [i \in 1..Len(promises) |-> [promises[i] EXCEPT !.awaited = @ \ {w}]]

\* the "exit" event of worker w
ExitDelivered(w) ==
  /\ ~TickPending
  /\ proc[w].st = "exited"

OnExit(w) ==
  /\ ExitDelivered(w)
  /\ listener[w] = "onExit"
  /\ \E age \in Ages :
       LET S == onExit([Cur EXCEPT !.proc[w] = Reaped], w,
                       proc[w].code, proc[w].signal, age) IN
       /\ Commit(S)
       /\ last' = Ran("onExit", w, 0, FALSE, proc[w].code, proc[w].signal, age,
                      NoMessage, S)
  /\ promises' = Processed(w)
  /\ UNCHANGED config

OnTerminatedExit(w) ==
  /\ ExitDelivered(w)
  /\ listener[w] = "terminate"
  /\ LET S == onTerminatedExit([Cur EXCEPT !.proc[w] = Reaped], w,
                               proc[w].code, proc[w].signal) IN
       /\ Commit(S)
       /\ last' = Ran("onTerminatedExit", w, 0, FALSE, proc[w].code,
                      proc[w].signal, 0, NoMessage, S)
  /\ promises' = Processed(w)
  /\ UNCHANGED config

\* the "message" event of worker w: w sent msg while it ran, and its exit
\* notification, which follows its messages, has not been delivered yet
OnMessage(w, msg) ==
  /\ ~TickPending
  /\ proc[w].st \in {"running", "exited"}
  /\ LET S == onMessage(Cur, w, msg) IN
       /\ Commit(S)
       /\ last' = Ran(IF msg.type = Null THEN msg.call ELSE "onMessage", w,
                      msg.count, FALSE, NullCode, NoSignal, 0, msg, S)
  /\ UNCHANGED <<config, promises>>

\* ---- steps of a worker process
\* the agent of w handles the next message of the supervisor; with an "exit"
\* event its listeners run and then process.exit(0)
AgentOnMessage(w) ==
  /\ proc[w].st = "running"
  /\ inbox[w] # <<>>
  /\ LET msg == Head(inbox[w])
         c == AgentExitOn(msg)
         S == IF c = Undefined
              THEN [Cur EXCEPT !.inbox[w] = Tail(@)]
              ELSE [Cur EXCEPT !.inbox[w] = <<>>,
                               !.proc[w] = Exited(0, NoSignal),
                               !.events = <<AgentExit(w, c)>>] IN
       /\ Commit(S)
       /\ last' = Ran("agentOnMessage", w, 0, FALSE, NullCode, NoSignal, 0,
                      msg, S)
  /\ UNCHANGED <<config, promises>>

\* the process of w ends for a reason of its own
WorkerEnds(w) ==
  /\ proc[w].st = "running"
  /\ Cardinality({i \in Ids : proc[i].st = "exited"}) < MaxExiting
  /\ \E t \in Triggers :
       LET S == [Cur EXCEPT !.inbox[w] = <<>>,
                            !.proc[w] = Exited(t[3], t[4]),
                            !.events = IF t[2] = Undefined THEN <<>>
                                       ELSE <<AgentExit(w, t[2])>>] IN
       /\ Commit(S)
       /\ last' = Ran(t[1], w, 0, FALSE, t[3], t[4], 0, NoMessage, S)
  /\ UNCHANGED <<config, promises>>

\* ---- the setters of the configuration
Setter(op) ==
  /\ sets < MaxSets
  /\ sets' = sets + 1
  /\ last' = Ran(op, 0, 0, FALSE, NullCode, NoSignal, 0, NoMessage, Cur)
  /\ UNCHANGED <<target_workers, workers, listener, death_time, proc, inbox,
                 promises, image, agent>>

SetFile(f) ==
  /\ Setter("set file")
  /\ settings' = [settings EXCEPT !.exec = Resolve(Dirname(CallerFile), f)]
  /\ UNCHANGED <<restart_on_error, restart_on_signal, restart_on_normal_exit,
                 min_restart_age>>
SetArgs(a) ==
  /\ Setter("set args")
  /\ settings' = [settings EXCEPT !.args = a]
  /\ UNCHANGED <<restart_on_error, restart_on_signal, restart_on_normal_exit,
                 min_restart_age>>
SetEnv(e) ==
  /\ Setter("set env")
  /\ settings' = [settings EXCEPT !.env = e]
  /\ UNCHANGED <<restart_on_error, restart_on_signal, restart_on_normal_exit,
                 min_restart_age>>
SetCwd(d) ==
  /\ Setter("set cwd")
  /\ settings' = [settings EXCEPT !.cwd = Resolve(ProcessCwd, d)]
  /\ UNCHANGED <<restart_on_error, restart_on_signal, restart_on_normal_exit,
                 min_restart_age>>
SetUid(n) ==
  /\ Setter("set uid")
  /\ settings' = [settings EXCEPT !.uid = n]
  /\ UNCHANGED <<restart_on_error, restart_on_signal, restart_on_normal_exit,
                 min_restart_age>>
SetGid(n) ==
  /\ Setter("set gid")
  /\ settings' = [settings EXCEPT !.gid = n]
  /\ UNCHANGED <<restart_on_error, restart_on_signal, restart_on_normal_exit,
                 min_restart_age>>
SetRestartOnError(b) ==
  /\ Setter("set restart_on_error")
  /\ restart_on_error' = b
  /\ UNCHANGED <<restart_on_signal, restart_on_normal_exit, min_restart_age,
                 settings>>
SetRestartOnSignal(b) ==
  /\ Setter("set restart_on_signal")
  /\ restart_on_signal' = b
  /\ UNCHANGED <<restart_on_error, restart_on_normal_exit, min_restart_age,
                 settings>>
SetRestartOnNormalExit(b) ==
  /\ Setter("set restart_on_normal_exit")
  /\ restart_on_normal_exit' = b
  /\ UNCHANGED <<restart_on_error, restart_on_signal, min_restart_age,
                 settings>>
SetMinRestartAge(a) ==
  /\ Setter("set min_restart_age")
  /\ min_restart_age' = a
  /\ UNCHANGED <<restart_on_error, restart_on_signal, restart_on_normal_exit,
                 settings>>

Next ==
  \/ Start
  \/ Stop
  \/ StopTick
  \/ \E x \in 0..MaxCount : SpinUp(x)
  \/ \E x \in 0..MaxCount, force \in BOOLEAN : SpinDown(x, force)
  \/ RefreshWorkers
  \/ \E w \in Ids : OnExit(w)
  \/ \E w \in Ids : OnTerminatedExit(w)
  \/ \E w \in Ids, msg \in WorkerMessages : OnMessage(w, msg)
  \/ \E w \in Ids : AgentOnMessage(w)
  \/ \E w \in Ids : WorkerEnds(w)

Spec == Init /\ [][Next]_vars

\* ---- the cluster under reconfiguration: a cluster constructed with the
\* defaults of every option, whose owner calls the setters in between
\* spawns and exits
InitConfig ==
  /\ Init
  /\ target_workers = 1
  /\ restart_on_error
  /\ restart_on_signal
  /\ ~restart_on_normal_exit

NextConfig ==
  \/ \E f \in Files : SetFile(f)
  \/ \E a \in ArgLists : SetArgs(a)
  \/ \E e \in Envs : SetEnv(e)
  \/ \E d \in Dirs : SetCwd(d)
  \/ \E n \in Users : SetUid(n)
  \/ \E n \in Users : SetGid(n)
  \/ \E b \in BOOLEAN : SetRestartOnError(b)
  \/ \E b \in BOOLEAN : SetRestartOnSignal(b)
  \/ \E b \in BOOLEAN : SetRestartOnNormalExit(b)
  \/ \E a \in Ages : SetMinRestartAge(a)
  \/ Start
  \/ \E x \in 0..MaxCount : SpinUp(x)
  \/ RefreshWorkers
  \/ \E w \in Ids : WorkerEnds(w)
  \/ \E w \in Ids : OnExit(w)

SpecConfig == InitConfig /\ [][NextConfig]_vars

\* ---- one worker process seen from inside: its program constructs the
\* agent, attaches "exit" listeners to it, and meets messages, signals, the
\* loss of the channel and uncaught errors
Step(did, msg) == [agent EXCEPT !.did = did, !.msg = msg,
                                !.log = <<>>, !.threw = FALSE]
outside == <<target_workers, restart_on_error, restart_on_signal,
             restart_on_normal_exit, min_restart_age, workers, listener,
             death_time, proc, inbox, promises, settings, image, sets, last>>

AgentNew ==
  /\ agent.alive
  /\ agent' = NewWorker(Step("new", NoMessage))
  /\ UNCHANGED outside

\* worker.on("exit", listener)
AgentListen ==
  /\ agent.alive
  /\ agent.instances >= 1
  /\ agent.listeners < MaxListeners
  /\ agent' = [Step("on", NoMessage) EXCEPT !.listeners = @ + 1]
  /\ UNCHANGED outside

\* process.on("uncaughtException", handler): the program survives its errors
AgentCatch ==
  /\ agent.alive
  /\ ~agent.catches
  /\ agent' = [Step("catch", NoMessage) EXCEPT !.catches = TRUE]
  /\ UNCHANGED outside

AgentMessage(msg) ==
  /\ agent.alive
  /\ agent' = Deliver(Step("message", msg), "message", msg)
  /\ UNCHANGED outside

AgentEvent(ev) ==
  /\ agent.alive
  /\ agent' = Deliver(Step(ev, NoMessage), ev, NoMessage)
  /\ UNCHANGED outside

NextAgent ==
  \/ AgentNew
  \/ AgentListen
  \/ AgentCatch
  \/ \E msg \in AgentMessages : AgentMessage(msg)
  \/ \E ev \in ProcessEvents : AgentEvent(ev)

SpecAgent == InitConfig /\ [][NextAgent]_vars

\* ================================================================ claims
IsRestart(e) == e.ev = "restart"
Registered == Range(workers)
ExitHandlers == {"onExit", "onTerminatedExit"}

\* C1: the completion of stop() on K >= 1 workers resolves after and only
\* after the K exit notifications have been processed: it is resolved only
\* when none of the K is awaited, and once none is awaited and the registry
\* is empty (the check stop() queued having run), it is resolved.
C1_StopResolves ==
  \A i \in 1..Len(promises) :
    promises[i].k >= 1 =>
      /\ promises[i].st = "resolved" => promises[i].awaited = {}
      /\ (promises[i].st # "tick" /\ promises[i].awaited = {} /\ Len(workers) = 0)
           => promises[i].st = "resolved"

\* C2: an exit handled by the default exit handler is answered by a
\* replacement iff the registry, after the removal, is below target_workers,
\* the worker's age is at least min_restart_age, and the flag of the exit's
\* class is set: restart_on_signal with a signal, restart_on_error with no
\* signal and a nonzero code, restart_on_normal_exit with code 0.
C2_RestartPolicy ==
  last.op = "onExit" =>
    LET replaced == Len(last.spawned) > 0
        flag == IF last.signal # NoSignal THEN restart_on_signal
                ELSE IF last.code # 0 THEN restart_on_error
                ELSE restart_on_normal_exit
    IN IF last.size0 - 1 < last.target0
       THEN replaced <=> (last.age >= min_restart_age /\ flag)
       ELSE ~replaced

\* a worker that died of an error, old enough, has just been replaced
C2_Witness ==
  /\ last.op = "onExit"
  /\ last.signal = NoSignal /\ last.code # 0
  /\ last.age >= min_restart_age
  /\ restart_on_error
  /\ Len(last.spawned) = 1

\* C3: a replacement is one spawn and one "restart" event, carrying the old
\* worker, the new one, the code and the signal, emitted after the old
\* worker's "death"; the new worker is registered under an identity that is
\* not the old one's, and a worker whose exit was processed is not registered.
C3_Replacement ==
  /\ last.op = "onExit" =>
       /\ Len(last.spawned) <= 1
       /\ Len(SelectSeq(last.events, IsRestart)) = Len(last.spawned)
       /\ Len(last.spawned) = 1 =>
            LET nw == last.spawned[1] IN
            /\ last.events = << Death(last.w, last.code, last.signal),
                               Restart(last.w, nw, last.code, last.signal) >>
            /\ nw # last.w
            /\ nw \in Registered
            /\ nw \notin Range(last.keys0)
            /\ last.w \notin Registered
            /\ Len(workers) = last.size0
  /\ \A w \in Ids : proc[w].st = "reaped" => w \notin Registered

\* worker 1 was killed by a signal and worker 2 took its place
C3_Witness ==
  /\ last.op = "onExit"
  /\ last.w = 1
  /\ last.signal # NoSignal
  /\ last.spawned = <<2>>
  /\ workers = <<2>>
  /\ proc[1].st = "reaped"

\* C4: spinDown(n, force = true) on at least n running workers has lowered
\* target_workers by n and the running count by n when it returns.
C4_ForcedSpinDownImmediate ==
  (last.op = "spinDown" /\ last.force /\ last.size0 >= last.n) =>
    /\ target_workers = last.target0 - last.n
    /\ Len(workers) = last.size0 - last.n

\* C5: the message of terminateWorker(id) is taken by the agent of worker id
\* as the EXIT system call: handling it, the agent emits "exit" with
\* {requested: true} and the process ends with code 0.
C5_ExitRecognised ==
  (last.op = "agentOnMessage" /\ last.msg = ExitRequest(last.w)) =>
    /\ last.events = << AgentExit(last.w, "requested") >>
    /\ proc[last.w] = Exited(0, NoSignal)
Max(a, b) == IF a >= b THEN a ELSE b

\* C6: spinUp(n), called by the owner or asked for by a worker's SPIN_UP
\* system call, raises target_workers by n and the running count by n: the
\* registry is what it was, followed by n new workers with distinct
\* identities that were not registered.
C6_SpinUp ==
  last.op \in {"spinUp", SPIN_UP} =>
    /\ last.op = SPIN_UP => last.msg.type = Null
    /\ target_workers = last.target0 + last.n
    /\ Len(workers) = last.size0 + last.n
    /\ workers = last.keys0 \o last.spawned
    /\ Len(last.spawned) = last.n
    /\ Cardinality(Range(last.spawned)) = last.n
    /\ Range(last.spawned) \cap Range(last.keys0) = {}

\* worker 1 asked for one more worker and worker 2 was spawned
C6_Witness ==
  /\ last.op = SPIN_UP
  /\ last.w = 1
  /\ last.n = 1
  /\ last.target0 = 1
  /\ target_workers = 2
  /\ workers = <<1, 2>>

\* C7: start() spawns target_workers processes (none when the target is not
\* positive); on an empty registry and a target N >= 0 the running count is N
\* when start() returns.
C7_Start ==
  last.op = "start" =>
    /\ target_workers = last.target0
    /\ Len(last.spawned) = Max(0, last.target0)
    /\ workers = last.keys0 \o last.spawned
    /\ (last.size0 = 0 /\ target_workers >= 0) => Len(workers) = target_workers

\* start() has just spawned a pool of two
C7_Witness ==
  /\ last.op = "start"
  /\ last.size0 = 0
  /\ target_workers = 2
  /\ Len(workers) = 2

\* C8: the registry holds at most target_workers workers, except during a
\* scale-down: no handler other than spinDown takes the registry from at most
\* target_workers to more than target_workers.
C8_SizeAtMostTarget ==
  (last.size0 <= last.target0 /\ last.op \notin {"spinDown", SPIN_DOWN}) =>
    Len(workers) <= target_workers

\* C9: a worker leaves the registry only in the handler of its own exit
\* notification, that handler always removes it, and a worker whose exit
\* notification was processed stays out of the registry for good.
C9_RemovedOnceOnExit ==
  [][ /\ \A w \in Range(workers) \ Range(workers') :
           /\ last'.op \in ExitHandlers
           /\ last'.w = w
           /\ proc[w].st = "exited"
           /\ proc'[w].st = "reaped"
      /\ \A w \in Ids :
           (last'.op \in ExitHandlers /\ last'.w = w) => w \notin Range(workers')
      /\ \A w \in Ids :
           proc[w].st = "reaped" =>
             (proc'[w].st = "reaped" /\ w \notin Range(workers')) ]_vars

\* the exit of a worker that was asked to terminate has just removed it,
\* while another worker stays registered
C9_Witness ==
  /\ last.op = "onTerminatedExit"
  /\ last.w \in Range(last.keys0)
  /\ last.w \notin Registered
  /\ proc[last.w].st = "reaped"
  /\ Len(workers) = 1

\* C10: refreshWorkers() spawns max(0, target_workers - running count)
\* processes and changes nothing else, so that the running count is at least
\* target_workers afterwards; called again at once it spawns nothing.
C10_RefreshWorkers ==
  /\ last.op = "refreshWorkers" =>
       /\ Len(last.spawned) = Max(0, last.target0 - last.size0)
       /\ workers = last.keys0 \o last.spawned
       /\ target_workers = last.target0
       /\ Len(workers) >= target_workers
  /\ LET S1 == refreshWorkers(Cur) IN
       ~S1.full =>
         /\ refreshWorkers(S1).workers = S1.workers
         /\ refreshWorkers(S1).target = target_workers
         /\ (Len(workers) >= target_workers => S1 = Cur)

\* refreshWorkers() has topped a pool of one up to its target of two
C10_Witness ==
  /\ last.op = "refreshWorkers"
  /\ last.size0 = 1
  /\ last.target0 = 2
  /\ last.spawned = <<2>>
\* C11: the exit of a worker terminateWorker was applied to spawns nothing
\* and emits no "restart", whatever its code, signal and the restart policy;
\* the record is removed, and "death" is emitted iff the code is nonzero or
\* there is a signal.
C11_TerminatedNotReplaced ==
  last.op = "onTerminatedExit" =>
    /\ last.spawned = <<>>
    /\ last.w \notin Registered
    /\ workers = Delete(last.keys0, last.w)
    /\ target_workers = last.target0
    /\ last.events =
         IF last.signal # NoSignal \/ last.code # 0
         THEN << Death(last.w, last.code, last.signal) >>
         ELSE << >>

\* a terminated worker died of an error, below target, with restart_on_error
\* set and an identity left to spawn: it was not replaced
C11_Witness ==
  /\ last.op = "onTerminatedExit"
  /\ last.code = 1
  /\ restart_on_error
  /\ Len(workers) < target_workers
  /\ Fresh(Cur) # {}
  /\ last.events = << Death(last.w, 1, NoSignal) >>

\* C15: target_workers is never negative.
C15_TargetNonNegative == target_workers >= 0

\* C16: a worker whose exit notification was processed has a death_time,
\* under either exit listener, and a registered worker has none.
C16_DeathTimeSet ==
  \A w \in Ids :
    /\ proc[w].st = "reaped" => death_time[w]
    /\ w \in Registered => ~death_time[w]

\* the registered workers terminateWorker was applied to
Terminating == {w \in Registered : listener[w] = "terminate"}

\* C18: a spinDown(1, force = true) issued while some registered worker has
\* not been selected for termination yet selects one more worker.
C18_ForcedSpinDownsCompose ==
  [][ ( /\ last'.op = "spinDown" /\ last'.force /\ last'.n = 1
        /\ workers' = workers
        /\ Terminating # Registered )
      => Cardinality(Terminating') = Cardinality(Terminating) + 1 ]_vars

\* C19: a worker stop() is waiting for causes no spawn: neither a message
\* it had sent (a SPIN_UP request among them) nor its exit notification puts
\* a new worker into the registry.
C19_NoSpawnAfterStop ==
  \A i \in 1..Len(promises) :
    last.w \in promises[i].awaited => last.spawned = <<>>

\* C20: spinDown(n, force = true) ends without an exception, also when n is
\* larger than the running count.
C20_ForcedSpinDownNoThrow ==
  (last.op = "spinDown" /\ last.force) => ~last.threw
\* the operations that are setters of the configuration
SetterOps ==
  {"set file", "set args", "set env", "set cwd", "set uid", "set gid",
   "set restart_on_error", "set restart_on_signal",
   "set restart_on_normal_exit", "set min_restart_age"}

\* the process of w was launched with the values c of exec, args, cwd, uid
\* and gid and with every entry of c.env other than WORKER_ID
LaunchedWith(w, c) ==
  /\ image[w].exec = c.exec
  /\ image[w].args = c.args
  /\ image[w].cwd = c.cwd
  /\ image[w].uid = c.uid
  /\ image[w].gid = c.gid
  /\ \A k \in DOMAIN c.env \ {"WORKER_ID"} :
       k \in DOMAIN image[w].env /\ image[w].env[k] = c.env[k]

\* C14: a setter leaves the registry, the processes and what every worker
\* was launched with unchanged; no step changes what an existing process was
\* launched with; a spawned process is launched with the values the
\* configuration holds at its spawn.
C14_SettersAffectLaterSpawnsOnly ==
  [][ /\ last'.op \in SetterOps =>
           /\ workers' = workers /\ proc' = proc /\ image' = image
           /\ target_workers' = target_workers
      /\ \A w \in Ids : proc[w].st # "unborn" => image'[w] = image[w]
      /\ \A w \in Range(last'.spawned) :
           /\ proc[w].st = "unborn"
           /\ image'[w].exec = settings'.exec
           /\ image'[w].args = settings'.args
           /\ image'[w].cwd = settings'.cwd
           /\ image'[w].uid = settings'.uid
           /\ image'[w].gid = settings'.gid
           /\ \A k \in DOMAIN settings'.env \ {"WORKER_ID"} :
                k \in DOMAIN image'[w].env
                  /\ image'[w].env[k] = settings'.env[k] ]_vars

\* two registered workers, the younger launched with what a setter stored
\* and the older still as it was launched before that call
C14_Witness ==
  \E w, v \in Registered :
    /\ w < v
    /\ settings # DefaultSettings
    /\ LaunchedWith(w, DefaultSettings)
    /\ LaunchedWith(v, settings)
    /\ image[w] # [image[v] EXCEPT !.env = image[w].env]

\* C17: the WORKER_ID variable a spawned process receives is the identity it
\* is registered under, whatever the configured env, and the process
\* receives the other configured env entries.
C17_WorkerIdDelivered ==
  \A w \in Range(last.spawned) :
    /\ w \in Registered
    /\ image[w].env["WORKER_ID"] = w
    /\ \A k \in DOMAIN settings.env \ {"WORKER_ID"} :
         k \in DOMAIN image[w].env /\ image[w].env[k] = settings.env[k]
\* C12: the first construction of an agent in a process succeeds and
\* registers the constructor's listeners; every later attempt throws and
\* changes neither the listeners on process nor the number of agents, which
\* is never more than one.
C12_SingleAgent ==
  [][ /\ agent'.instances <= 1
      /\ agent'.did = "new" =>
           IF agent.instances = 0
           THEN /\ ~agent'.threw
                /\ agent'.instances = 1
                /\ agent'.hooks = ConstructorHooks
           ELSE /\ agent'.threw
                /\ agent'.instances = agent.instances
                /\ agent'.hooks = agent.hooks
                /\ agent'.listeners = agent.listeners
                /\ agent'.alive ]_vars

\* a second construction attempt threw and left the listeners as they were
C12_Witness ==
  /\ agent.did = "new"
  /\ agent.threw
  /\ agent.instances = 1
  /\ agent.hooks = ConstructorHooks

\* the classification the claim gives to a trigger, Undefined for none
ClassOf(did, msg) ==
  IF did = "message"
  THEN (IF msg.type = Null /\ msg.call = EXIT THEN "requested" ELSE Undefined)
  ELSE IF did = "disconnect" THEN "disconnected"
  ELSE IF did = "uncaughtExceptionMonitor" THEN "error"
  ELSE IF did \in {"SIGHUP", "SIGINT", "SIGQUIT", "SIGTERM", "SIGABRT",
                   "SIGBREAK"} THEN did
  ELSE Undefined

\* C13: with an agent in the process, a trigger makes every "exit" listener
\* attached so far hear the trigger's classification once; for an EXIT call,
\* a caught signal and the loss of the channel the agent then, and only
\* then, ends the process with code 0; for an uncaught error it ends
\* nothing (the process lives on if its program handles the error, and the
\* platform ends it with code 1 if not); anything else emits no "exit" and
\* ends nothing.
C13_ExitTriggers ==
  (agent.instances = 1 /\ agent.did \notin {"boot", "new", "on", "catch"}) =>
    LET c == ClassOf(agent.did, agent.msg)
        heard == [i \in 1..agent.listeners |-> Heard("app", c)] IN
    IF c = Undefined
    THEN agent.log = <<>> /\ agent.alive
    ELSE IF c = "error"
    THEN /\ agent.log = heard
         /\ IF agent.catches THEN agent.alive
            ELSE ~agent.alive /\ agent.code = 1
    ELSE /\ agent.log = Append(heard, Heard("terminate", c))
         /\ ~agent.alive /\ agent.code = 0 /\ agent.signal = NoSignal

\* two listeners heard the loss of the channel before the agent ended the
\* process
C13_Witness ==
  /\ agent.did = "disconnect"
  /\ agent.listeners = 2
  /\ agent.log = << Heard("app", "disconnected"), Heard("app", "disconnected"),
                    Heard("terminate", "disconnected") >>
  /\ ~agent.alive /\ agent.code = 0

====
